---------------------------- MODULE Spec2Model ----------------------------
(***************************************************************************)
(* The public wrappers of the FusionAPI headers over the host's raw        *)
(* interface: LoadCaseItems, AdditiveFEADeckBuilder, SimAttribute,         *)
(* StructuralConstraint, ConstraintMask and ConfigurationParameterCell.    *)
(*                                                                         *)
(* A std::string is a finite sequence of characters; character 0 is the    *)
(* NUL character.  A C string (a pointer to char) is a sequence without    *)
(* NUL: what a reader of the pointer sees up to the terminator.  Object    *)
(* pointers are naturals, 0 is the null pointer.  A client session holds   *)
(* one object (obj) and calls its public methods one after the other; the  *)
(* host behind the raw interface is modelled from the documentation of the *)
(* public methods.                                                         *)
(***************************************************************************)
EXTENDS Integers, Sequences, FiniteSets, TLC

VARIABLES
    obj,         \* the object the client session holds (and the property or method it uses)
    call,        \* the last completed public call: [op, arg, ret, raw]
    live,        \* number of host-allocated buffers not yet given to DeallocateArray
    items,       \* LoadCaseItems: the host's collection, a sequence of SimAttribute pointers
    nameOf,      \* the host's name of every SimAttribute of the collection, a C string
    builder,     \* the deck builder the client got from create() (NULL: none)
    deck,        \* the host's deck of the builder: a sequence of card pointers
    appended,    \* history: the cards the client passed to append() on this builder
    cardOf,      \* the host's cards: cardOf[c] is the name-value pair of card pointer c
    cell,        \* ConfigurationParameterCell in the host: [expr, val, readOnly, by]
    cell0,       \* history: the cell as it was when the session began
    simName,     \* SimAttribute in the host: its name, a C string
    simEntities, \* SimAttribute in the host: its input entities, a sequence of pointers
    constraint,  \* StructuralConstraint in the host: [type, mask, displacements, rotations]
    mask         \* ConstraintMask in the host: one boolean per degree of freedom

hostItems == <<items, nameOf>>
hostDeck == <<builder, deck, appended, cardOf>>
hostCell == <<cell, cell0>>
hostSim == <<simName, simEntities>>
hostCons == <<constraint, mask>>

vars == <<obj, call, live, hostItems, hostDeck, hostCell, hostSim, hostCons>>

\* ------------------------------------------------------------------ bounds
MaxChar == 2
MaxStrLen == 2
MaxItems == 2
MaxDeck == 2
MaxCards == 2
MaxEntity == 2
MaxEnts == 2
MaxPtr == 1
MaxVec == 2
MaxArrayCards == 1

\* ------------------------------------------------------------ basic types
NULL == 0
NUL == 0

Char == 0..MaxChar

SeqUpTo(S, n) == UNION {[1..k -> S] : k \in 0..n}

\* the values of a std::string argument
String == SeqUpTo(Char, MaxStrLen)

\* the values a NUL-terminated buffer can hold
CString == SeqUpTo(Char \ {NUL}, MaxStrLen)

RECURSIVE BeforeNul(_)
\* what a reader of a character pointer sees: the characters before the first NUL
BeforeNul(s) ==
    IF s = <<>> \/ Head(s) = NUL THEN <<>>
    ELSE <<Head(s)>> \o BeforeNul(Tail(s))

\* value.c_str() as the raw method reads it
c_str(s) == BeforeNul(s)

\* std::string res; res = p: the characters at p up to the terminator
string_assign(buf) == BeforeNul(buf)

\* one call of a raw method, with the argument it got and what it returned
RawCall(fn, arg, ret) == [fn |-> fn, arg |-> arg, ret |-> ret]

\* core::Ptr<T> res = raw: the smart pointer holds the raw pointer (null stays null)
Ptr(raw) == raw

NoCall == [op |-> "none"]

\* ------------------------------------------------------------ LoadCaseItems
\* the SimAttribute objects of the host
Handles == 1..MaxItems

InjectiveSeqs(S, n) ==
    {q \in SeqUpTo(S, n) : \A i, j \in DOMAIN q : q[i] = q[j] => i = j}

\* host: "The first item in the collection has an index of 0 ... null if an
\* invalid index was specified"
item_raw(index) == IF index < Len(items) THEN items[index + 1] ELSE NULL

\* host: "Returns the specified item or null if the name is not found"
itemByName_raw(name) ==
    IF \E i \in DOMAIN items : nameOf[items[i]] = name
    THEN items[CHOOSE i \in DOMAIN items :
                 /\ nameOf[items[i]] = name
                 /\ \A j \in DOMAIN items : nameOf[items[j]] = name => i <= j]
    ELSE NULL

\* host: "The number of items."
count_raw == Len(items)

\* item with the index taken as 1-based
item_offByOne(index) == Ptr(item_raw(index + 1))

\* core::Ptr<SimAttribute> item(size_t index) const
item(index) == Ptr(item_raw(index))

\* core::Ptr<SimAttribute> itemByName(const std::string& name) const
itemByName(name) == Ptr(itemByName_raw(c_str(name)))

\* size_t count() const
count == count_raw

RECURSIVE copyToFrom(_)
\* the loop of copyTo from position i on: item(i), item(i+1), ... while i < count()
copyToFrom(i) == IF i < count THEN <<item(i)>> \o copyToFrom(i + 1) ELSE <<>>

copyTo == copyToFrom(0)

\* the names the host gave the attributes: one character each
ItemNames == {<<c>> : c \in Char \ {NUL}}

CallItem ==
    /\ obj = "LoadCaseItems"
    /\ \E index \in 0..(MaxItems + 1) :
           /\ call' = [op |-> "item", arg |-> index, ret |-> item(index)]
           /\ UNCHANGED <<obj, live, hostItems, hostDeck, hostCell, hostSim, hostCons>>

CallItemByName ==
    /\ obj = "LoadCaseItems"
    /\ \E name \in String :
           /\ call' = [op |-> "itemByName", arg |-> name, ret |-> itemByName(name)]
           /\ UNCHANGED <<obj, live, hostItems, hostDeck, hostCell, hostSim, hostCons>>

CallCount ==
    /\ obj = "LoadCaseItems"
    /\ call' = [op |-> "count", ret |-> count]
    /\ UNCHANGED <<obj, live, hostItems, hostDeck, hostCell, hostSim, hostCons>>

CallCopyTo ==
    /\ obj = "LoadCaseItems"
    /\ call' = [op |-> "copyTo", ret |-> copyTo]
    /\ UNCHANGED <<obj, live, hostItems, hostDeck, hostCell, hostSim, hostCons>>


\* -------------------------------------------------- AdditiveFEADeckBuilder
\* the one object create_raw() can hand out
BuilderObject == 1

VoidCards == {"BinaryOutputCard", "EnsightOutputCard", "NoOffCoreCard",
              "OnCore1Card", "EndCard"}

StringCards == {"TitleCard"}

\* the AdditiveFEACard values a client passes: the void cards, the string
\* card and one of the int cards
CardTypes == VoidCards \cup StringCards \cup {"AnalysisTypeCard"}

\* what an out-of-bounds read of a buffer yields
Garbage == -1

\* host: a new card is allocated behind the existing ones
NewCard(pair) == [ptr |-> Len(cardOf) + 1, cards |-> Append(cardOf, pair)]

NoCard == [ptr |-> NULL, cards |-> cardOf]

\* host: "or null if the creation failed"
create_raw == {NULL, BuilderObject}

\* host: "Append an input card to the deck"
append_raw(card) == Append(deck, card)

\* host: "Returns the card name-value pair.  For void cards, the value is an
\* empty string"; a card that is no void card is not created
createVoidCard_raw(card) ==
    IF card \in VoidCards THEN NewCard([name |-> card, value |-> <<>>]) ELSE NoCard

\* host: "value : The string value argument of the card"
createStringCard_raw(card, value) ==
    IF card \in StringCards THEN NewCard([name |-> card, value |-> value]) ELSE NoCard

\* host: "Gets the list of cards that makes up the deck": a buffer of s
\* pointers at p, or a null p, which leaves the size s unset (any value)
cards_raw ==
    IF deck = <<>>
    THEN {[p |-> NULL, s |-> g, buf |-> <<>>] : g \in 0..MaxDeck}
         \cup {[p |-> 1, s |-> 0, buf |-> <<>>]}
    ELSE {[p |-> 1, s |-> Len(deck), buf |-> deck]}

\* core::Ptr<T>::get(): the pointer the smart pointer holds
get(ptr) == ptr

\* res.assign(p, p+s): s smart pointers made of the s pointers read from p
assign(buf, s) ==
    [i \in 1..s |-> IF i \in DOMAIN buf THEN Ptr(buf[i]) ELSE Garbage]

\* create returning an empty Ptr whatever create_raw returned
create_null(raw) == Ptr(NULL)

\* create() on the result raw of create_raw()
create(raw) == Ptr(raw)

\* append forwarding the card twice
append_twice(card) == Append(append_raw(get(card)), get(card))

\* the deck after append(card)
append(card) == append_raw(get(card))

\* createVoidCard forwarding to the raw method of createStringCard
createVoidCard_asString(card) ==
    LET r == createStringCard_raw(card, <<>>) IN [ret |-> Ptr(r.ptr), cards |-> r.cards]

\* the card returned and the host's cards after createVoidCard(card)
createVoidCard(card) ==
    LET r == createVoidCard_raw(card) IN [ret |-> Ptr(r.ptr), cards |-> r.cards]

\* the card returned and the host's cards after createStringCard(card, value)
createStringCard(card, value) ==
    LET r == createStringCard_raw(card, c_str(value))
    IN [ret |-> Ptr(r.ptr), cards |-> r.cards]

\* cards without the test of the returned pointer
cards_noNullCheck(r) ==
    [res |-> assign(r.buf, r.s),
     ev |-> <<[e |-> "assign", p |-> r.p, n |-> r.s], [e |-> "DeallocateArray", p |-> r.p]>>]

\* cards() on the result r of cards_raw(s): the vector returned and what was
\* done with the buffer, in order
cards(r) ==
    IF r.p # NULL
    THEN [res |-> assign(r.buf, r.s),
          ev |-> <<[e |-> "assign", p |-> r.p, n |-> r.s],
                   [e |-> "DeallocateArray", p |-> r.p]>>]
    ELSE [res |-> <<>>, ev |-> <<>>]

\* the buffers a getter took from the host and did not give back
Leaked(r, ev) ==
    (IF r.p # NULL THEN 1 ELSE 0)
        - Cardinality({i \in DOMAIN ev : ev[i].e = "DeallocateArray"})

CallCreate ==
    /\ obj = "AdditiveFEADeckBuilder"
    /\ \E raw \in create_raw :
           /\ builder' = create(raw)
           /\ call' = [op |-> "create", ret |-> create(raw),
                       raw |-> <<[fn |-> "create_raw", ret |-> raw]>>]
    /\ deck' = <<>>
    /\ appended' = <<>>
    /\ UNCHANGED <<obj, live, cardOf, hostItems, hostCell, hostSim, hostCons>>

CallAppend ==
    /\ obj = "AdditiveFEADeckBuilder"
    /\ builder # NULL
    /\ Len(deck) < MaxDeck
    /\ \E card \in DOMAIN cardOf :
           /\ deck' = append(Ptr(card))
           /\ appended' = Append(appended, Ptr(card))
           /\ call' = [op |-> "append", arg |-> Ptr(card)]
    /\ UNCHANGED <<obj, live, builder, cardOf, hostItems, hostCell, hostSim, hostCons>>

CallCreateVoidCard ==
    /\ obj = "AdditiveFEADeckBuilder"
    /\ builder # NULL
    /\ Len(cardOf) < MaxCards
    /\ \E card \in CardTypes :
           /\ cardOf' = createVoidCard(card).cards
           /\ call' = [op |-> "createVoidCard", arg |-> card,
                       ret |-> createVoidCard(card).ret]
    /\ UNCHANGED <<obj, live, builder, deck, appended, hostItems, hostCell, hostSim, hostCons>>

CallCreateStringCard ==
    /\ obj = "AdditiveFEADeckBuilder"
    /\ builder # NULL
    /\ Len(cardOf) < MaxCards
    /\ \E card \in StringCards \cup {"EndCard"}, value \in SeqUpTo(Char, 1) :
           /\ cardOf' = createStringCard(card, value).cards
           /\ call' = [op |-> "createStringCard", arg |-> <<card, value>>,
                       ret |-> createStringCard(card, value).ret]
    /\ UNCHANGED <<obj, live, builder, deck, appended, hostItems, hostCell, hostSim, hostCons>>

CallCards ==
    /\ obj = "AdditiveFEADeckBuilder"
    /\ builder # NULL
    /\ \E r \in cards_raw :
           /\ call' = [op |-> "cards", ret |-> cards(r).res, raw |-> r, ev |-> cards(r).ev]
           /\ live' = live + Leaked(r, cards(r).ev)
    /\ UNCHANGED <<obj, hostDeck, hostItems, hostCell, hostSim, hostCons>>

\* ------------------------------ AdditiveFEADeckBuilder::createStringArrayCard
StringArrayCards == {"STLsCard", "PRMsCard"}

\* the address operator new[] gives the temporary array
ArrayAddress == 1

\* the strings a client puts in the vector: one character each, and one
\* with a NUL behind its character
ArrayStrings == {<<c>> : c \in Char \ {NUL}} \cup {<<MaxChar, NUL>>}

\* host: "value : The string-array value argument of the card": the card
\* holds the value_size C strings read from the array; a card that is no
\* string array card is not created
createStringArrayCard_raw(card, value, value_size) ==
    IF card \in StringArrayCards
    THEN NewCard([name |-> card, value |-> SubSeq(value, 1, value_size)])
    ELSE NoCard

\* value.empty() ? nullptr : (new const char*[value.size()]): the address of
\* the temporary array
NewArray(value) == IF value = <<>> THEN NULL ELSE ArrayAddress

RECURSIVE FillFrom(_, _, _)
\* the loop from index i on (1-based here): value_[i] = value[i].c_str()
FillFrom(array, value, i) ==
    IF i > Len(value) THEN array
    ELSE FillFrom([array EXCEPT ![i] = c_str(value[i])], value, i + 1)

\* what the loop did, in order: one write per index
Writes(value) == [i \in 1..Len(value) |-> [e |-> "write", i |-> i, s |-> c_str(value[i])]]

\* the call of createStringArrayCard_raw with the array as it is at the call
RawArrayEvent(card, p, array, size, freed) ==
    [e |-> "raw", fn |-> "createStringArrayCard_raw", card |-> card, p |-> p,
     value |-> array, value_size |-> size, allocated |-> (p # NULL /\ ~freed)]

\* createStringArrayCard with delete[] ahead of the raw call
createStringArrayCard_deleteFirst(card, value) ==
    LET p == NewArray(value)
        array == FillFrom([i \in 1..Len(value) |-> Garbage], value, 1)
        r == createStringArrayCard_raw(card, array, Len(value))
    IN [ret |-> Ptr(r.ptr), cards |-> r.cards,
        ev |-> (IF p # NULL THEN <<[e |-> "new[]", p |-> p, n |-> Len(value)]>> ELSE <<>>)
               \o Writes(value)
               \o <<[e |-> "delete[]", p |-> p]>>
               \o <<RawArrayEvent(card, p, array, Len(value), TRUE)>>]

\* the card returned, the host's cards after createStringArrayCard(card, value)
\* and what was done with the temporary array, in order
createStringArrayCard(card, value) ==
    LET p == NewArray(value)
        array == FillFrom([i \in 1..Len(value) |-> Garbage], value, 1)
        r == createStringArrayCard_raw(card, array, Len(value))
    IN [ret |-> Ptr(r.ptr), cards |-> r.cards,
        ev |-> (IF p # NULL THEN <<[e |-> "new[]", p |-> p, n |-> Len(value)]>> ELSE <<>>)
               \o Writes(value)
               \o <<RawArrayEvent(card, p, array, Len(value), FALSE)>>
               \o <<[e |-> "delete[]", p |-> p]>>]

CallCreateStringArrayCard ==
    /\ obj = "AdditiveFEADeckBuilder::createStringArrayCard"
    /\ builder # NULL
    /\ Len(cardOf) < MaxArrayCards
    /\ \E card \in {"STLsCard", "EndCard"}, value \in SeqUpTo(ArrayStrings, MaxVec) :
           /\ cardOf' = createStringArrayCard(card, value).cards
           /\ call' = [op |-> "createStringArrayCard", arg |-> [card |-> card, value |-> value],
                       ret |-> createStringArrayCard(card, value).ret,
                       ev |-> createStringArrayCard(card, value).ev]
    /\ UNCHANGED <<obj, live, builder, deck, appended, hostItems, hostCell, hostSim, hostCons>>

\* ---------------------------------------------- ConfigurationParameterCell
\* Expressions are tally numerals: a valid expression is a row of strokes
\* (character 1) and denotes their number; any other text is no expression.
Stroke == 1

\* the parameter values (database units) an expression of MaxStrLen characters
\* can denote
Values == 0..MaxStrLen

IsExpression(e) == \A i \in DOMAIN e : e[i] = Stroke

\* host: the value an expression evaluates to
Eval(e) == Len(e)

\* host: the expression written for a value
Format(v) == [i \in 1..v |-> Stroke]

Rejected(state) == [ok |-> FALSE, state |-> state]

Accepted(state) == [ok |-> TRUE, state |-> state]

\* a host that writes the expression of a read-only table too
expression_raw_set_writable(value, accept) ==
    IF accept /\ IsExpression(value)
    THEN Accepted([cell EXCEPT !.expr = value, !.val = Eval(value), !.by = "expression"])
    ELSE Rejected(cell)

\* host: "This property behaves as read-only when the table is obtained from
\* a DataFile object"; what is no expression is refused
expression_raw_set(value, accept) ==
    IF accept /\ ~cell.readOnly /\ IsExpression(value)
    THEN Accepted([cell EXCEPT !.expr = value, !.val = Eval(value), !.by = "expression"])
    ELSE Rejected(cell)

\* host: "Setting this property will overwrite any existing expression. This
\* property behaves as read-only when the table is obtained from a DataFile
\* object"
value_raw_set(value, accept) ==
    IF accept /\ ~cell.readOnly
    THEN Accepted([cell EXCEPT !.expr = Format(value), !.val = value, !.by = "value"])
    ELSE Rejected(cell)

\* host: the expression in a buffer of its own, or null on failure
expression_raw == {[p |-> NULL, buf |-> <<>>], [p |-> 1, buf |-> cell.expr \o <<NUL>>]}

value_raw == cell.val

\* bool expression(const std::string& value)
expression_set(value, accept) ==
    LET r == expression_raw_set(c_str(value), accept)
    IN [ret |-> r.ok, state |-> r.state,
        raw |-> <<RawCall("expression_raw", c_str(value), r.ok)>>]

\* value(v) dropping the result of value_raw
value_set_alwaysTrue(value, accept) ==
    LET r == value_raw_set(value, accept)
    IN [ret |-> TRUE, state |-> r.state, raw |-> <<RawCall("value_raw", value, r.ok)>>]

\* bool value(double value)
value_set(value, accept) ==
    LET r == value_raw_set(value, accept)
    IN [ret |-> r.ok, state |-> r.state, raw |-> <<RawCall("value_raw", value, r.ok)>>]

\* std::string expression() const, on the result r of expression_raw()
expression(r) ==
    IF r.p # NULL
    THEN [res |-> string_assign(r.buf),
          ev |-> <<[e |-> "assign", p |-> r.p], [e |-> "DeallocateArray", p |-> r.p]>>]
    ELSE [res |-> <<>>, ev |-> <<>>]

\* double value() const
value_get == value_raw

CallExpressionSet ==
    /\ obj = "ConfigurationParameterCell"
    /\ \E v \in String, accept \in BOOLEAN :
           /\ cell' = expression_set(v, accept).state
           /\ call' = [op |-> "expression_set", arg |-> v,
                       ret |-> expression_set(v, accept).ret,
                       raw |-> expression_set(v, accept).raw, before |-> cell]
    /\ UNCHANGED <<obj, live, cell0, hostItems, hostDeck, hostSim, hostCons>>

CallValueSet ==
    /\ obj = "ConfigurationParameterCell"
    /\ \E v \in Values, accept \in BOOLEAN :
           /\ cell' = value_set(v, accept).state
           /\ call' = [op |-> "value_set", arg |-> v,
                       ret |-> value_set(v, accept).ret,
                       raw |-> value_set(v, accept).raw, before |-> cell]
    /\ UNCHANGED <<obj, live, cell0, hostItems, hostDeck, hostSim, hostCons>>

CallExpression ==
    /\ obj = "ConfigurationParameterCell"
    /\ \E r \in expression_raw :
           /\ call' = [op |-> "expression", ret |-> expression(r).res, raw |-> r,
                       ev |-> expression(r).ev]
           /\ live' = live + Leaked(r, expression(r).ev)
    /\ UNCHANGED <<obj, hostCell, hostItems, hostDeck, hostSim, hostCons>>

CallValue ==
    /\ obj = "ConfigurationParameterCell"
    /\ call' = [op |-> "value", ret |-> value_get]
    /\ UNCHANGED <<obj, live, hostCell, hostItems, hostDeck, hostSim, hostCons>>

\* ------------------------------------------------------------ SimAttribute
\* the entities a client can pass; NULL is the empty smart pointer
Entities == 1..MaxEntity

\* objectType() of an entity: odd pointers are vertices, even ones faces
TypeOf(e) == IF e % 2 = 1 THEN "BRepVertex" ELSE "BRepFace"

\* "All of the entities must be of a single type"
SingleType(es) ==
    \A i, j \in DOMAIN es : es[i] # NULL /\ es[j] # NULL /\ TypeOf(es[i]) = TypeOf(es[j])

\* host: the name is replaced when the host accepts the value
name_raw_set(value, accept) ==
    IF accept THEN Accepted(value) ELSE Rejected(simName)

\* a host that takes entities of mixed types
inputEntities_raw_set_anyType(value, value_size, accept) ==
    IF accept THEN Accepted(SubSeq(value, 1, value_size)) ELSE Rejected(simEntities)

\* host: "All of the entities must be of a single type. For example, it can't
\* contain vertices and faces but only vertices or faces."
inputEntities_raw_set(value, value_size, accept) ==
    IF accept /\ SingleType(SubSeq(value, 1, value_size))
    THEN Accepted(SubSeq(value, 1, value_size))
    ELSE Rejected(simEntities)

\* host: the name in a buffer of its own, or null on failure
name_raw == {[p |-> NULL, buf |-> <<>>], [p |-> 1, buf |-> simName \o <<NUL>>]}

\* host: the entities in a buffer of s pointers at p, or a null p, which
\* leaves the size s unset (any value)
inputEntities_raw ==
    {[p |-> NULL, s |-> g, buf |-> <<>>] : g \in 0..MaxEnts}
    \cup {[p |-> 1, s |-> Len(simEntities), buf |-> simEntities]}

\* value_[i] = value[i].get() for every i: the array handed to the raw method
PointerArray(value) == [i \in 1..Len(value) |-> get(value[i])]

\* std::string name() const, on the result r of name_raw()
name(r) ==
    IF r.p # NULL
    THEN [res |-> string_assign(r.buf),
          ev |-> <<[e |-> "assign", p |-> r.p], [e |-> "DeallocateArray", p |-> r.p]>>]
    ELSE [res |-> <<>>, ev |-> <<>>]

\* bool name(const std::string& value)
name_set(value, accept) ==
    LET r == name_raw_set(c_str(value), accept)
    IN [ret |-> r.ok, state |-> r.state, raw |-> <<RawCall("name_raw", c_str(value), r.ok)>>]

\* inputEntities() const, on the result r of inputEntities_raw(s)
inputEntities(r) ==
    IF r.p # NULL
    THEN [res |-> assign(r.buf, r.s),
          ev |-> <<[e |-> "assign", p |-> r.p, n |-> r.s],
                   [e |-> "DeallocateArray", p |-> r.p]>>]
    ELSE [res |-> <<>>, ev |-> <<>>]

\* bool inputEntities(const std::vector<core::Ptr<core::Base>>& value)
inputEntities_set(value, accept) ==
    LET r == inputEntities_raw_set(PointerArray(value), Len(value), accept)
    IN [ret |-> r.ok, state |-> r.state,
        raw |-> <<RawCall("inputEntities_raw",
                          [value |-> PointerArray(value), value_size |-> Len(value)], r.ok)>>]

CallName ==
    /\ obj = "SimAttribute::name"
    /\ \E r \in name_raw :
           /\ call' = [op |-> "name", ret |-> name(r).res, raw |-> r, ev |-> name(r).ev]
           /\ live' = live + Leaked(r, name(r).ev)
    /\ UNCHANGED <<obj, hostSim, hostItems, hostDeck, hostCell, hostCons>>

CallNameSet ==
    /\ obj = "SimAttribute::name"
    /\ \E v \in String, accept \in BOOLEAN :
           /\ simName' = name_set(v, accept).state
           /\ call' = [op |-> "name_set", arg |-> v, ret |-> name_set(v, accept).ret,
                       raw |-> name_set(v, accept).raw]
    /\ UNCHANGED <<obj, live, simEntities, hostItems, hostDeck, hostCell, hostCons>>

CallInputEntities ==
    /\ obj = "SimAttribute::inputEntities"
    /\ \E r \in inputEntities_raw :
           /\ call' = [op |-> "inputEntities", ret |-> inputEntities(r).res, raw |-> r,
                       ev |-> inputEntities(r).ev]
           /\ live' = live + Leaked(r, inputEntities(r).ev)
    /\ UNCHANGED <<obj, hostSim, hostItems, hostDeck, hostCell, hostCons>>

CallInputEntitiesSet ==
    /\ obj = "SimAttribute::inputEntities"
    /\ \E v \in SeqUpTo(Entities \cup {NULL}, MaxEnts), accept \in BOOLEAN :
           /\ simEntities' = inputEntities_set(v, accept).state
           /\ call' = [op |-> "inputEntities_set", arg |-> v,
                       ret |-> inputEntities_set(v, accept).ret,
                       raw |-> inputEntities_set(v, accept).raw]
    /\ UNCHANGED <<obj, live, simName, hostItems, hostDeck, hostCell, hostCons>>

\* ---------------------------------------------------- StructuralConstraint
ConstraintTypes ==
    {"UnknownConstraintType", "FixedConstraintType", "SurfaceRollerConstraintType",
     "DirectionalConstraintType", "PinConstraintType", "RemoteConstraintType"}

\* the ConstraintMask and Vector3D objects a client can pass; NULL is the
\* empty smart pointer
Pointers == 0..MaxPtr

\* host: a property of the constraint is replaced when the host accepts the value
constraint_store(field, value, accept) ==
    IF accept THEN Accepted([constraint EXCEPT ![field] = value]) ELSE Rejected(constraint)

\* type(v) dropping the result of type_raw
type_set_alwaysTrue(value, accept) ==
    LET r == constraint_store("type", value, accept)
    IN [ret |-> TRUE, state |-> r.state, raw |-> <<RawCall("type_raw", value, r.ok)>>]

\* bool type(ConstraintTypes value)
type_set(value, accept) ==
    LET r == constraint_store("type", value, accept)
    IN [ret |-> r.ok, state |-> r.state, raw |-> <<RawCall("type_raw", value, r.ok)>>]

\* bool mask(const core::Ptr<ConstraintMask>& value)
mask_set(value, accept) ==
    LET r == constraint_store("mask", get(value), accept)
    IN [ret |-> r.ok, state |-> r.state, raw |-> <<RawCall("mask_raw", get(value), r.ok)>>]

\* bool displacements(const core::Ptr<core::Vector3D>& value)
displacements_set(value, accept) ==
    LET r == constraint_store("displacements", get(value), accept)
    IN [ret |-> r.ok, state |-> r.state,
        raw |-> <<RawCall("displacements_raw", get(value), r.ok)>>]

\* bool rotations(const core::Ptr<core::Vector3D>& value)
rotations_set(value, accept) ==
    LET r == constraint_store("rotations", get(value), accept)
    IN [ret |-> r.ok, state |-> r.state,
        raw |-> <<RawCall("rotations_raw", get(value), r.ok)>>]

CallTypeSet ==
    /\ obj = "StructuralConstraint"
    /\ \E v \in ConstraintTypes, accept \in BOOLEAN :
           /\ constraint' = type_set(v, accept).state
           /\ call' = [op |-> "type_set", arg |-> v, ret |-> type_set(v, accept).ret,
                       raw |-> type_set(v, accept).raw]
    /\ UNCHANGED <<obj, live, mask, hostItems, hostDeck, hostCell, hostSim>>

CallMaskSet ==
    /\ obj = "StructuralConstraint"
    /\ \E v \in Pointers, accept \in BOOLEAN :
           /\ constraint' = mask_set(Ptr(v), accept).state
           /\ call' = [op |-> "mask_set", arg |-> Ptr(v), ret |-> mask_set(Ptr(v), accept).ret,
                       raw |-> mask_set(Ptr(v), accept).raw]
    /\ UNCHANGED <<obj, live, mask, hostItems, hostDeck, hostCell, hostSim>>

CallDisplacementsSet ==
    /\ obj = "StructuralConstraint"
    /\ \E v \in Pointers, accept \in BOOLEAN :
           /\ constraint' = displacements_set(Ptr(v), accept).state
           /\ call' = [op |-> "displacements_set", arg |-> Ptr(v),
                       ret |-> displacements_set(Ptr(v), accept).ret,
                       raw |-> displacements_set(Ptr(v), accept).raw]
    /\ UNCHANGED <<obj, live, mask, hostItems, hostDeck, hostCell, hostSim>>

CallRotationsSet ==
    /\ obj = "StructuralConstraint"
    /\ \E v \in Pointers, accept \in BOOLEAN :
           /\ constraint' = rotations_set(Ptr(v), accept).state
           /\ call' = [op |-> "rotations_set", arg |-> Ptr(v),
                       ret |-> rotations_set(Ptr(v), accept).ret,
                       raw |-> rotations_set(Ptr(v), accept).raw]
    /\ UNCHANGED <<obj, live, mask, hostItems, hostDeck, hostCell, hostSim>>

\* ---------------------------------------------------------- ConstraintMask
DegreesOfFreedom ==
    {"DisplacementX", "DisplacementY", "DisplacementZ",
     "RotationX", "RotationY", "RotationZ"}

\* host: a flag of the mask is replaced when the host accepts the value
mask_store(dof, value, accept) ==
    IF accept THEN Accepted([mask EXCEPT ![dof] = value]) ELSE Rejected(mask)

\* bool isDisplacementConstrainedX(bool value)
isDisplacementConstrainedX_set(value, accept) ==
    LET r == mask_store("DisplacementX", value, accept)
    IN [ret |-> r.ok, state |-> r.state,
        raw |-> <<RawCall("isDisplacementConstrainedX_raw", value, r.ok)>>]

\* bool isDisplacementConstrainedY(bool value)
isDisplacementConstrainedY_set(value, accept) ==
    LET r == mask_store("DisplacementY", value, accept)
    IN [ret |-> r.ok, state |-> r.state,
        raw |-> <<RawCall("isDisplacementConstrainedY_raw", value, r.ok)>>]

\* bool isDisplacementConstrainedZ(bool value)
isDisplacementConstrainedZ_set(value, accept) ==
    LET r == mask_store("DisplacementZ", value, accept)
    IN [ret |-> r.ok, state |-> r.state,
        raw |-> <<RawCall("isDisplacementConstrainedZ_raw", value, r.ok)>>]

\* bool isRotationConstrainedX(bool value)
isRotationConstrainedX_set(value, accept) ==
    LET r == mask_store("RotationX", value, accept)
    IN [ret |-> r.ok, state |-> r.state,
        raw |-> <<RawCall("isRotationConstrainedX_raw", value, r.ok)>>]

\* bool isRotationConstrainedY(bool value)
isRotationConstrainedY_set(value, accept) ==
    LET r == mask_store("RotationY", value, accept)
    IN [ret |-> r.ok, state |-> r.state,
        raw |-> <<RawCall("isRotationConstrainedY_raw", value, r.ok)>>]

\* bool isRotationConstrainedZ(bool value)
isRotationConstrainedZ_set(value, accept) ==
    LET r == mask_store("RotationZ", value, accept)
    IN [ret |-> r.ok, state |-> r.state,
        raw |-> <<RawCall("isRotationConstrainedZ_raw", value, r.ok)>>]

CallIsDisplacementConstrainedXSet ==
    /\ obj = "ConstraintMask"
    /\ \E v \in BOOLEAN, accept \in BOOLEAN :
           /\ mask' = isDisplacementConstrainedX_set(v, accept).state
           /\ call' = [op |-> "isDisplacementConstrainedX_set", arg |-> v,
                       ret |-> isDisplacementConstrainedX_set(v, accept).ret,
                       raw |-> isDisplacementConstrainedX_set(v, accept).raw]
    /\ UNCHANGED <<obj, live, constraint, hostItems, hostDeck, hostCell, hostSim>>

CallIsDisplacementConstrainedYSet ==
    /\ obj = "ConstraintMask"
    /\ \E v \in BOOLEAN, accept \in BOOLEAN :
           /\ mask' = isDisplacementConstrainedY_set(v, accept).state
           /\ call' = [op |-> "isDisplacementConstrainedY_set", arg |-> v,
                       ret |-> isDisplacementConstrainedY_set(v, accept).ret,
                       raw |-> isDisplacementConstrainedY_set(v, accept).raw]
    /\ UNCHANGED <<obj, live, constraint, hostItems, hostDeck, hostCell, hostSim>>

CallIsDisplacementConstrainedZSet ==
    /\ obj = "ConstraintMask"
    /\ \E v \in BOOLEAN, accept \in BOOLEAN :
           /\ mask' = isDisplacementConstrainedZ_set(v, accept).state
           /\ call' = [op |-> "isDisplacementConstrainedZ_set", arg |-> v,
                       ret |-> isDisplacementConstrainedZ_set(v, accept).ret,
                       raw |-> isDisplacementConstrainedZ_set(v, accept).raw]
    /\ UNCHANGED <<obj, live, constraint, hostItems, hostDeck, hostCell, hostSim>>

CallIsRotationConstrainedXSet ==
    /\ obj = "ConstraintMask"
    /\ \E v \in BOOLEAN, accept \in BOOLEAN :
           /\ mask' = isRotationConstrainedX_set(v, accept).state
           /\ call' = [op |-> "isRotationConstrainedX_set", arg |-> v,
                       ret |-> isRotationConstrainedX_set(v, accept).ret,
                       raw |-> isRotationConstrainedX_set(v, accept).raw]
    /\ UNCHANGED <<obj, live, constraint, hostItems, hostDeck, hostCell, hostSim>>

CallIsRotationConstrainedYSet ==
    /\ obj = "ConstraintMask"
    /\ \E v \in BOOLEAN, accept \in BOOLEAN :
           /\ mask' = isRotationConstrainedY_set(v, accept).state
           /\ call' = [op |-> "isRotationConstrainedY_set", arg |-> v,
                       ret |-> isRotationConstrainedY_set(v, accept).ret,
                       raw |-> isRotationConstrainedY_set(v, accept).raw]
    /\ UNCHANGED <<obj, live, constraint, hostItems, hostDeck, hostCell, hostSim>>

CallIsRotationConstrainedZSet ==
    /\ obj = "ConstraintMask"
    /\ \E v \in BOOLEAN, accept \in BOOLEAN :
           /\ mask' = isRotationConstrainedZ_set(v, accept).state
           /\ call' = [op |-> "isRotationConstrainedZ_set", arg |-> v,
                       ret |-> isRotationConstrainedZ_set(v, accept).ret,
                       raw |-> isRotationConstrainedZ_set(v, accept).raw]
    /\ UNCHANGED <<obj, live, constraint, hostItems, hostDeck, hostCell, hostSim>>

\* ------------------------------------------------------- the specification
Classes ==
    {"LoadCaseItems", "AdditiveFEADeckBuilder", "ConfigurationParameterCell",
     "SimAttribute::name", "SimAttribute::inputEntities", "StructuralConstraint",
     "ConstraintMask", "AdditiveFEADeckBuilder::createStringArrayCard"}

\* the cells a table can hold: a valid expression and its value; readOnly says
\* that the table was obtained from a DataFile object, by which setter wrote
\* the expression last
Cells ==
    {[expr |-> e, val |-> Eval(e), readOnly |-> ro, by |-> "table"] :
        e \in {x \in CString : IsExpression(x)}, ro \in BOOLEAN}

Init ==
    /\ obj \in Classes
    /\ call = NoCall
    /\ live = 0
    /\ items \in (IF obj = "LoadCaseItems" THEN InjectiveSeqs(Handles, MaxItems) ELSE {<<>>})
    /\ nameOf \in (IF obj = "LoadCaseItems" THEN [Handles -> ItemNames] ELSE {<<>>})
    /\ builder = (IF obj = "AdditiveFEADeckBuilder::createStringArrayCard"
                  THEN BuilderObject ELSE NULL)
    /\ deck = <<>>
    /\ appended = <<>>
    /\ cardOf = <<>>
    /\ cell \in (IF obj = "ConfigurationParameterCell" THEN Cells ELSE {<<>>})
    /\ cell0 = cell
    /\ simName \in (IF obj = "SimAttribute::name" THEN CString ELSE {<<>>})
    /\ simEntities \in
           (IF obj = "SimAttribute::inputEntities"
            THEN {es \in SeqUpTo(Entities, MaxEnts) : SingleType(es)}
            ELSE {<<>>})
    /\ constraint \in
           (IF obj = "StructuralConstraint"
            THEN [type : ConstraintTypes, mask : Pointers,
                  displacements : Pointers, rotations : Pointers]
            ELSE {<<>>})
    /\ mask \in (IF obj = "ConstraintMask" THEN [DegreesOfFreedom -> BOOLEAN] ELSE {<<>>})

Next ==
    \/ CallItem
    \/ CallItemByName
    \/ CallCount
    \/ CallCopyTo
    \/ CallCreate
    \/ CallAppend
    \/ CallCreateVoidCard
    \/ CallCreateStringCard
    \/ CallCards
    \/ CallCreateStringArrayCard
    \/ CallExpressionSet
    \/ CallValueSet
    \/ CallExpression
    \/ CallValue
    \/ CallName
    \/ CallNameSet
    \/ CallInputEntities
    \/ CallInputEntitiesSet
    \/ CallTypeSet
    \/ CallMaskSet
    \/ CallDisplacementsSet
    \/ CallRotationsSet
    \/ CallIsDisplacementConstrainedXSet
    \/ CallIsDisplacementConstrainedYSet
    \/ CallIsDisplacementConstrainedZSet
    \/ CallIsRotationConstrainedXSet
    \/ CallIsRotationConstrainedYSet
    \/ CallIsRotationConstrainedZSet

Spec == Init /\ [][Next]_vars

\* C2: item(index) is 0-based: it returns the item at position index when
\* index < count(), and null when index >= count().
C2_ItemZeroBased ==
    call.op = "item" =>
        IF call.arg < count
        THEN call.ret # NULL /\ call.ret = items[call.arg + 1]
        ELSE call.ret = NULL

C2_Witness ==
    /\ call.op = "item"
    /\ count = MaxItems
    /\ call.arg = count - 1
    /\ call.ret = items[count]

\* C3: itemByName(name) returns an item of the collection whose name is name
\* when there is one, and null when no item of the collection has that name.
C3_ItemByName ==
    call.op = "itemByName" =>
        IF \E i \in DOMAIN items : nameOf[items[i]] = call.arg
        THEN /\ call.ret # NULL
             /\ \E i \in DOMAIN items : items[i] = call.ret
             /\ nameOf[call.ret] = call.arg
        ELSE call.ret = NULL


\* C1: on a builder obtained from create(), after append(c1), ..., append(cn)
\* cards() returns exactly c1..cn, in append order, with length n (0 when
\* nothing was appended).
C1_CardsAreAppended ==
    call.op = "cards" =>
        /\ Len(call.ret) = Len(appended)
        /\ call.ret = appended

C1_Witness ==
    /\ call.op = "cards"
    /\ Len(appended) = MaxDeck
    /\ appended[1] # appended[2]
    /\ call.ret = appended

\* C6: create() returns a null Ptr exactly when create_raw() returned null,
\* and otherwise a Ptr to the object create_raw() returned.
C6_CreateForwardsNull ==
    call.op = "create" =>
        /\ Len(call.raw) = 1
        /\ call.raw[1].fn = "create_raw"
        /\ (get(call.ret) = NULL) <=> (call.raw[1].ret = NULL)
        /\ call.raw[1].ret # NULL => get(call.ret) = call.raw[1].ret

C6_Witness ==
    /\ call.op = "create"
    /\ call.raw[1].ret = BuilderObject
    /\ call.ret = BuilderObject

\* C8: for every card type accepted as a void card, the card createVoidCard
\* returns is a name-value pair whose value is the empty string.
C8_VoidCardValueEmpty ==
    (call.op = "createVoidCard" /\ call.arg \in VoidCards) =>
        /\ call.ret # NULL
        /\ call.ret \in DOMAIN cardOf
        /\ cardOf[call.ret].name = call.arg
        /\ cardOf[call.ret].value = <<>>

C8_Witness ==
    /\ call.op = "createVoidCard"
    /\ call.arg = "EndCard"
    /\ call.ret = MaxCards
    /\ cardOf[call.ret].value = <<>>
    /\ \E c \in DOMAIN cardOf : cardOf[c].value # <<>>


\* C4: when the table was obtained from a DataFile object, expression and
\* value are read-only: after any sequence of expression(s) and value(v)
\* setter calls, expression() and value() return what they returned before.
C4_ReadOnlyCell ==
    (obj = "ConfigurationParameterCell" /\ cell0.readOnly) =>
        /\ cell.expr = cell0.expr
        /\ cell.val = cell0.val
        /\ (call.op = "expression" /\ call.raw.p # NULL) => call.ret = cell0.expr
        /\ call.op = "value" => call.ret = cell0.val

C4_Witness ==
    /\ obj = "ConfigurationParameterCell"
    /\ cell0.readOnly
    /\ call.op = "expression_set"
    /\ IsExpression(c_str(call.arg))
    /\ c_str(call.arg) # cell0.expr
    /\ cell.expr = cell0.expr

C7_SingleEntityType ==
    /\ SingleType(simEntities)
    /\ (call.op = "inputEntities") =>
           \A i, j \in DOMAIN call.ret : TypeOf(call.ret[i]) = TypeOf(call.ret[j])

C7_Witness ==
    /\ call.op = "inputEntities_set"
    /\ Len(call.arg) = MaxEnts
    /\ \A i \in DOMAIN call.arg : call.arg[i] # NULL
    /\ TypeOf(call.arg[1]) # TypeOf(call.arg[2])
    /\ ~call.ret
    /\ Len(simEntities) = MaxEnts


\* the raw method each public boolean setter forwards to
RawOfSetter ==
    [name_set |-> "name_raw", inputEntities_set |-> "inputEntities_raw",
     type_set |-> "type_raw", mask_set |-> "mask_raw",
     displacements_set |-> "displacements_raw", rotations_set |-> "rotations_raw",
     isDisplacementConstrainedX_set |-> "isDisplacementConstrainedX_raw",
     isDisplacementConstrainedY_set |-> "isDisplacementConstrainedY_raw",
     isDisplacementConstrainedZ_set |-> "isDisplacementConstrainedZ_raw",
     isRotationConstrainedX_set |-> "isRotationConstrainedX_raw",
     isRotationConstrainedY_set |-> "isRotationConstrainedY_raw",
     isRotationConstrainedZ_set |-> "isRotationConstrainedZ_raw",
     expression_set |-> "expression_raw", value_set |-> "value_raw"]

\* the caller's argument as it crosses the binary interface: a std::string as
\* its character pointer, a vector of smart pointers as an array of pointers
\* with its size, a smart pointer as its pointer, an enum, bool or double as is
Marshalled(op, arg) ==
    CASE op \in {"name_set", "expression_set"} -> BeforeNul(arg)
      [] op = "inputEntities_set" -> [value |-> arg, value_size |-> Len(arg)]
      [] OTHER -> arg

\* C9: every public boolean setter makes exactly one call to its raw method
\* with the caller's argument and returns exactly the boolean the raw method
\* returned.
C9_SettersForward ==
    call.op \in DOMAIN RawOfSetter =>
        /\ Len(call.raw) = 1
        /\ call.raw[1].fn = RawOfSetter[call.op]
        /\ call.raw[1].arg = Marshalled(call.op, call.arg)
        /\ call.ret = call.raw[1].ret

C9_Witness ==
    /\ call.op = "type_set"
    /\ call.arg = "PinConstraintType"
    /\ call.raw[1].ret = FALSE
    /\ call.ret = FALSE
    /\ constraint.type # "PinConstraintType"

\* C10: a getter that receives a host-allocated buffer returns an empty string
\* or vector when the raw method returns null, without calling DeallocateArray
\* and whatever the size argument holds; on a non-null buffer it returns a copy
\* equal to the buffer's content (all return_size elements, in order, for
\* arrays) and calls DeallocateArray on that buffer exactly once, after the copy.
C10_BufferGetters ==
    call.op \in {"name", "expression", "inputEntities", "cards"} =>
        /\ live = 0
        /\ call.raw.p = NULL => (call.ret = <<>> /\ call.ev = <<>>)
        /\ call.raw.p # NULL =>
               /\ Len(call.ev) = 2
               /\ call.ev[1].e = "assign" /\ call.ev[1].p = call.raw.p
               /\ call.ev[2].e = "DeallocateArray" /\ call.ev[2].p = call.raw.p
               /\ IF call.op \in {"name", "expression"}
                  THEN call.ret \o <<NUL>> = call.raw.buf
                  ELSE /\ Len(call.ret) = call.raw.s
                       /\ call.ev[1].n = call.raw.s
                       /\ \A i \in 1..call.raw.s : get(call.ret[i]) = call.raw.buf[i]

C10_Witness ==
    /\ call.op = "inputEntities"
    /\ call.raw.p # NULL
    /\ call.raw.s = MaxEnts
    /\ call.ret = simEntities
    /\ Len(call.ev) = 2


\* the positions of the events of kind k in the event list ev
EventsOf(ev, k) == {i \in DOMAIN ev : ev[i].e = k}

\* C11: createStringArrayCard(card, value) calls createStringArrayCard_raw
\* exactly once with value_size = value.size() and, for a non-empty value, an
\* array whose i-th entry is the C string of value[i]; for an empty value it
\* passes a null array with size 0 and writes no entry.  The temporary array is
\* still allocated while the raw call runs and is released exactly once, after
\* the raw call has returned.
C11_StringArrayMarshalling ==
    call.op = "createStringArrayCard" =>
        LET ev == call.ev
            value == call.arg.value
            raws == EventsOf(ev, "raw")
            news == EventsOf(ev, "new[]")
            dels == {i \in EventsOf(ev, "delete[]") : ev[i].p # NULL}
        IN /\ Cardinality(raws) = 1
           /\ \A r \in raws :
                  /\ ev[r].fn = "createStringArrayCard_raw"
                  /\ ev[r].card = call.arg.card
                  /\ ev[r].value_size = Len(value)
                  /\ Len(ev[r].value) = Len(value)
                  /\ \A i \in 1..Len(value) : ev[r].value[i] = BeforeNul(value[i])
                  /\ \A w \in EventsOf(ev, "write") : w < r
                  /\ IF value = <<>>
                     THEN /\ ev[r].p = NULL
                          /\ EventsOf(ev, "write") = {}
                          /\ news = {}
                          /\ dels = {}
                     ELSE /\ ev[r].p # NULL
                          /\ ev[r].allocated
                          /\ Cardinality(news) = 1
                          /\ \A n \in news : n < r /\ ev[n].p = ev[r].p /\ ev[n].n = Len(value)
                          /\ Cardinality(dels) = 1
                          /\ \A d \in dels : d > r /\ ev[d].p = ev[r].p
                          /\ \A i \in 1..Len(value) :
                                 Cardinality({w \in EventsOf(ev, "write") : ev[w].i = i}) = 1

C11_Witness ==
    /\ call.op = "createStringArrayCard"
    /\ call.arg.card = "STLsCard"
    /\ Len(call.arg.value) = MaxVec
    /\ call.arg.value[1] # call.arg.value[MaxVec]
    /\ call.ret # NULL
    /\ cardOf[call.ret].value = [i \in 1..MaxVec |-> BeforeNul(call.arg.value[i])]
    /\ call.ev[Len(call.ev)].e = "delete[]"

C11_WitnessEmpty ==
    /\ call.op = "createStringArrayCard"
    /\ call.arg.value = <<>>
    /\ call.ret # NULL

=============================================================================
